---- MODULE Spec2Model ----
\* Exclusive playback coordinator of claude-auto-speak (lib/tts-manager.sh),
\* driven by the stop hook: every hook invocation is an independent OS process
\* that sources tts-manager.sh, calls speak_exclusive once and exits.
\*
\* Granularity: one action per access to a shared object (the lock file, a pid
\* file, the process table).  Every external command of the script (grep, rm,
\* cat, kill) is a separate process, so other sessions run between them.
\*
\* Processes: hook h has pid HookPid(h); the background subshell "( engine;
\* release_voice_lock ) &" spawned by hook h has pid SubPid(h) (this is $!,
\* the pid written to the pid file) and the engine (node speak / say) it forks
\* has pid EnginePid(h).  Pids are never reused within a behaviour.
\*
\* The hook Prior ran before the behaviour starts: it either had nothing to
\* say, or it ran speak_exclusive alone and exited, and its utterance is still
\* playing.  Hooks 1..MaxCallers run concurrently from there.
EXTENDS Integers, Sequences, FiniteSets, TLC

\* ---------------------------------------------------------------- bounds
MaxCallers == 2
\* speak_exclusive waits 15 s (50 polls); the concurrent model scales the
\* timeout down, SpecWait covers wait_for_voice_lock for every T up to MaxWaitT.
WaitSeconds == 1
MaxWaitT == 16
MaxSourced == 2

\* ------------------------------------------------------ program constants
interval_ms == 300
GraceProbes == 10
SpeakTimeout == 15

Callers == 1..MaxCallers
Prior == MaxCallers + 1
Hooks == Callers \cup {Prior}
\* Sanitized session ids (TTS_SESSION_ID_SAFE), of equal length.
Sessions == {"s1", "s2"}
HookPid(h) == h
SubPid(h) == Prior + h
EnginePid(h) == 2 * Prior + h

\* ident is the session identity a process derives when it sources
\* tts-manager.sh (lines 23-25); the sessions of the coordinator model are
\* sanitized ids already.
\* peer is the identity derived by a process of another session; install is
\* what the install directory holds (bin/speak, config.json).
VARIABLES lockFile, pidFile, caller, utt, ident, peer, install

vars == <<lockFile, pidFile, caller, utt, ident, peer, install>>

\* --------------------------------------------------------- session identity
\* Strings are sequences of characters.  An environment variable that is
\* unset and one that is empty are both <<>>: ${VAR:-default} treats them alike.
\* ${value:-default}
DefaultTo(value, default) == IF value # <<>> THEN value ELSE default

\* TTS_SESSION_ID="${TERM_SESSION_ID:-${WINDOWID:-session-${PPID:-$$}}}"
TTS_SESSION_ID(env) ==
  DefaultTo(env.TERM_SESSION_ID,
            DefaultTo(env.WINDOWID,
                      <<"s", "e", "s", "s", "i", "o", "n", "-">>
                        \o DefaultTo(env.PPID, env.pid)))

\* echo "$s": bash's builtin takes an argument of the form -[neE]+ as options
\* and prints nothing of it; n suppresses the newline.
IsEchoOption(s) ==
  /\ Len(s) >= 2 /\ s[1] = "-"
  /\ \A k \in 2..Len(s) : s[k] \in {"n", "e", "E"}

Echo(s) ==
  IF IsEchoOption(s)
  THEN IF \E k \in 2..Len(s) : s[k] = "n" THEN <<>> ELSE <<"\n">>
  ELSE s \o <<"\n">>

\* The set 'a-zA-Z0-9_-' of tr.
SafeChars ==
  {"a", "b", "c", "d", "e", "f", "g", "h", "i", "j", "k", "l", "m",
   "n", "o", "p", "q", "r", "s", "t", "u", "v", "w", "x", "y", "z",
   "A", "B", "C", "D", "E", "F", "G", "H", "I", "J", "K", "L", "M",
   "N", "O", "P", "Q", "R", "S", "T", "U", "V", "W", "X", "Y", "Z",
   "0", "1", "2", "3", "4", "5", "6", "7", "8", "9", "_", "-"}

\* tr -cd SET: delete every character outside SET
TrDeleteComplement(s, set) == SelectSeq(s, LAMBDA ch : ch \in set)

\* $(cmd): the output of cmd without its trailing newlines.
RECURSIVE CommandSubst(_)
CommandSubst(out) ==
  IF out # <<>> /\ out[Len(out)] = "\n"
  THEN CommandSubst(SubSeq(out, 1, Len(out) - 1))
  ELSE out

\* TTS_SESSION_ID_SAFE=$(echo "$TTS_SESSION_ID" | tr -cd 'a-zA-Z0-9_-')
TTS_SESSION_ID_SAFE(raw) == CommandSubst(TrDeleteComplement(Echo(raw), SafeChars))

NoEnv == [TERM_SESSION_ID |-> <<>>, WINDOWID |-> <<>>, PPID |-> <<>>, pid |-> <<>>]

\* sourced: how many times the process has sourced tts-manager.sh; first is
\* the safe id of the first time.
NoIdent == [env |-> NoEnv, raw |-> <<>>, safe |-> <<>>, first |-> <<>>, sourced |-> 0]

\* ------------------------------------------------------ the install directory
\* config.json: a missing file, or a JSON object; Null is the value of a key
\* that is missing, null or false.
Null == "null"
NoConfig == [exists |-> FALSE, voice |-> Null, rate |-> Null]

\* The install of the concurrent model: bin/speak in place, no config.json.
DefaultInstall == [speak |-> TRUE, config |-> NoConfig]

Installs ==
  [speak : BOOLEAN,
   config : {NoConfig} \cup [exists : {TRUE}, voice : {Null, "Alex"},
                              rate : {Null, "200"}]]

DefaultVoice == "Samantha"
DefaultRate == "175"

\* $(jq -r '.key // "default"' config.json 2>/dev/null || echo "default"):
\* jq fails without output on a missing file, and // takes the default for a
\* missing, null or false value.
JqOr(config, key, default) ==
  IF ~config.exists THEN default
  ELSE IF config[key] = Null THEN default
  ELSE config[key]

EngineCommandSayOnly(inst) ==
  <<"say", "-v", JqOr(inst.config, "voice", DefaultVoice),
           "-r", JqOr(inst.config, "rate", DefaultRate)>>

\* The engine command of the background subshell (lines 231-239): node on
\* bin/speak when that file exists, otherwise say with voice and rate.
EngineCommand(inst) ==
  IF inst.speak THEN <<"node", "bin/speak">>
  ELSE <<"say", "-v", JqOr(inst.config, "voice", DefaultVoice),
                "-r", JqOr(inst.config, "rate", DefaultRate)>>

\* ------------------------------------------------------------ the lock file
\* A file is [exists, lines]; a line of the lock file is <<key, value>>.
\* ino names the inode: the caller whose open(O_CREAT) created the file.  A
\* writer that opened the file before it was unlinked writes to the old inode.
InoOf(h) == h
NoFile == [exists |-> FALSE, ino |-> 0, lines |-> <<>>]

\* The three-line record written by acquire_voice_lock ($$ is the caller's
\* pid, also inside the background subshell).
LockRecord(pid, session) ==
  <<<<"PID", pid>>, <<"SESSION", session>>, <<"TIME", "now">>>>

\* grep '^KEY=' file 2>/dev/null | cut -d= -f2 : the values of the lines with
\* that key, in order; nothing when the file is absent or has no such line.
GrepCut(file, key) ==
  IF ~file.exists THEN <<>>
  ELSE SelectSeq(file.lines, LAMBDA l : l[1] = key)

Values(matches) == [k \in 1..Len(matches) |-> matches[k][2]]

GrepValues(file, key) == Values(GrepCut(file, key))

\* ------------------------------------------------------------ process table
HookAlive(h) == caller[h].pc \notin {"unborn", "exited"}

\* kill -0 pid 2>/dev/null
IsAlive(pid) ==
  \/ \E h \in Hooks : pid = HookPid(h) /\ HookAlive(h)
  \/ \E h \in Hooks : pid = SubPid(h) /\ utt[h].sub = "alive"
  \/ \E h \in Hooks : pid = EnginePid(h) /\ utt[h].engine = "playing"

\* kill -0 "$var": the variable holds the output of a command substitution, a
\* sequence of values; the probe succeeds only for one value naming a live pid.
ProbeAlive(vals) == Len(vals) = 1 /\ IsAlive(vals[1])

\* [[ -n "$var" ]]
NonEmpty(vals) == vals # <<>>

\* ------------------------------------------------------------------ state
IdleCaller ==
  [session |-> "s1", text |-> <<>>, pc |-> "unborn", inWait |-> FALSE,
   timeout |-> 0,
   max_iterations |-> 0, i |-> 0, polls |-> 0,
   lock_pid |-> <<>>, lock_session |-> <<>>,
   fd |-> 0, pid |-> <<>>, waited |-> 0, rc |-> 0, dirty |-> FALSE]

\* An utterance: the subshell (sub, pc), the engine it forked ("playing", then
\* "ok" or "fail" when it ended on its own, "killed" when a signal ended it),
\* the command line of the engine (cmd), the signal
\* pending on the subshell (sig), and how the subshell ended (end): "killed"
\* by a signal, "errexit" under set -e, or after release_voice_lock either
\* "released" (it removed the lock file) or "kept" (it did not).
NoUtt ==
  [sub |-> "none", pc |-> "none", cmd |-> <<>>, engine |-> "none",
   sig |-> "none", lock_session |-> <<>>, end |-> ""]

\* The state the hook Prior leaves behind when it ran speak_exclusive alone from a
\* clean directory and exited: its record in the lock file, its subshell pid
\* in the pid file of its session, its engine playing.
PriorSession == "s1"

InitClean ==
  /\ peer = NoIdent
  /\ ident = NoIdent
  /\ lockFile = NoFile
  /\ pidFile = [s \in Sessions |-> NoFile]
  /\ caller = [h \in Hooks |->
                 IF h = Prior THEN [IdleCaller EXCEPT !.pc = "exited"]
                 ELSE IdleCaller]
  /\ utt = [h \in Hooks |-> NoUtt]

InitPrior ==
  /\ peer = NoIdent
  /\ ident = NoIdent
  /\ lockFile = [exists |-> TRUE, ino |-> InoOf(Prior),
                 lines |-> LockRecord(HookPid(Prior), PriorSession)]
  /\ pidFile = [s \in Sessions |->
                  IF s = PriorSession
                  THEN [exists |-> TRUE, ino |-> InoOf(Prior), lines |-> <<SubPid(Prior)>>]
                  ELSE NoFile]
  /\ caller = [h \in Hooks |->
                 IF h = Prior
                 THEN [IdleCaller EXCEPT !.pc = "exited", !.session = PriorSession]
                 ELSE IdleCaller]
  /\ utt = [h \in Hooks |->
              IF h = Prior
              THEN [NoUtt EXCEPT !.sub = "alive", !.pc = "wait", !.engine = "playing",
                                !.cmd = EngineCommand(install)]
              ELSE NoUtt]

Init == install = DefaultInstall /\ (InitClean \/ InitPrior)

Upd(c, rec) == caller' = [caller EXCEPT ![c] = rec]

\* dirty: this call of speak_exclusive has written or removed a file,
\* signalled a process or spawned one.
Effect(rec, e) == [rec EXCEPT !.dirty = TRUE]

\* ------------------------------------------------------- wait_for_voice_lock
\* local max_iterations=$(( (timeout_seconds * 1000) / interval_ms ))
MaxIterations(timeout_seconds) == (timeout_seconds * 1000) \div interval_ms

LoopContinuesOffByOne(i, max_iterations) == i <= max_iterations

\* while [[ $i -lt $max_iterations ]]
LoopContinues(i, max_iterations) == i < max_iterations

\* The head of the while loop of wait_for_voice_lock: another poll, or the
\* timeout (return 1; in speak_exclusive: log, return 1).
LoopHead(rec) ==
  IF LoopContinues(rec.i, rec.max_iterations)
  THEN [rec EXCEPT !.pc = "chk_exists"]
  ELSE [rec EXCEPT !.pc = "returned", !.rc = 1, !.inWait = FALSE]

\* wait_for_voice_lock "${1:-10}" up to its first loop test.
EnterWait(rec, timeout_seconds) ==
  LoopHead([rec EXCEPT !.inWait = TRUE, !.timeout = timeout_seconds,
                       !.max_iterations = MaxIterations(timeout_seconds),
                       !.i = 0, !.polls = 0])

\* What the caller of check_voice_lock does with its result: speak_exclusive
\* (line 216) waits when the lock is held, wait_for_voice_lock (line 79)
\* returns 0 when it is free and sleeps otherwise; both go on to acquire.
AfterCheck(rec, isFree) ==
  LET r == [rec EXCEPT !.lock_pid = <<>>, !.lock_session = <<>>]
  IN  IF isFree THEN [r EXCEPT !.pc = "acq_open", !.inWait = FALSE]
      ELSE IF r.inWait THEN [r EXCEPT !.pc = "wait_sleep"]
      ELSE EnterWait(r, WaitSeconds)

\* ------------------------------------------------------------ speak_exclusive
\* text="${1:-}"; if [[ -z "$text" ]]; then text=$(cat); fi
TextOf(arg, stdin) == IF arg # <<>> THEN arg ELSE CommandSubst(stdin)

\* if [[ -z "$text" ]]; then ... return 0
NoText(text) == text = <<>>

\* The argument and the standard input of the calls of the concurrent model.
Args == {<<>>, <<"h", "i">>}
Stdins == {<<>>, <<"h", "i", "\n">>}

\* A hook process of session s starts and calls speak_exclusive (lines
\* 200-212) with an argument of args and a standard input of stdins: no text
\* returns 0 at once.
StartWith(c, args, stdins) ==
  /\ caller[c].pc = "unborn"
  /\ \A d \in Callers : d < c => caller[d].pc # "unborn"  \* hooks start in order
  /\ \E s \in Sessions, arg \in args, stdin \in stdins :
       LET r == [caller[c] EXCEPT !.session = s, !.text = TextOf(arg, stdin)]
       IN  Upd(c, IF NoText(r.text)
                  THEN [r EXCEPT !.pc = "returned", !.rc = 0]
                  ELSE [r EXCEPT !.pc = "chk_exists"])
  /\ UNCHANGED <<lockFile, pidFile, utt, ident, peer, install>>

Start(c) == StartWith(c, Args, Stdins)

\* ----------------------------------------------------------- check_voice_lock
ChkExistsReserving(c) ==
  /\ caller[c].pc = "chk_exists"
  /\ LET r == IF caller[c].inWait
              THEN [caller[c] EXCEPT !.polls = @ + 1] ELSE caller[c]
     IN  Upd(c, IF ~lockFile.exists THEN AfterCheck(r, TRUE)
                ELSE [r EXCEPT !.pc = "chk_pid"])
  /\ lockFile' = IF lockFile.exists THEN lockFile
                 ELSE [exists |-> TRUE, ino |-> InoOf(c),
                       lines |-> LockRecord(HookPid(c), caller[c].session)]
  /\ UNCHANGED <<pidFile, utt, ident, peer, install>>

\* if [[ ! -f "$VOICE_LOCK_FILE" ]]; then return 0
ChkExists(c) ==
  /\ caller[c].pc = "chk_exists"
  /\ LET r == IF caller[c].inWait
              THEN [caller[c] EXCEPT !.polls = @ + 1] ELSE caller[c]
     IN  Upd(c, IF ~lockFile.exists THEN AfterCheck(r, TRUE)
                ELSE [r EXCEPT !.pc = "chk_pid"])
  /\ UNCHANGED <<lockFile, pidFile, utt, ident, peer, install>>

\* local lock_pid=$(grep '^PID=' ... | cut -d= -f2)
ChkPid(c) ==
  /\ caller[c].pc = "chk_pid"
  /\ Upd(c, [caller[c] EXCEPT !.lock_pid = GrepValues(lockFile, "PID"),
                              !.pc = "chk_sess"])
  /\ UNCHANGED <<lockFile, pidFile, utt, ident, peer, install>>

\* local lock_session=$(grep '^SESSION=' ... | cut -d= -f2)
ChkSess(c) ==
  /\ caller[c].pc = "chk_sess"
  /\ Upd(c, [caller[c] EXCEPT !.lock_session = GrepValues(lockFile, "SESSION"),
                              !.pc = "chk_alive"])
  /\ UNCHANGED <<lockFile, pidFile, utt, ident, peer, install>>

LockVerdictSessionFirst(lock_pid, lock_session, me, pidAlive) ==
  IF NonEmpty(lock_session) /\ lock_session = <<me>> THEN "free"
  ELSE IF NonEmpty(lock_pid) /\ ~pidAlive THEN "stale"
  ELSE "busy"

LockVerdictNotEqual(lock_pid, lock_session, me, pidAlive) ==
  IF NonEmpty(lock_pid) /\ ~pidAlive THEN "stale"
  ELSE IF NonEmpty(lock_session) /\ lock_session # <<me>> THEN "free"
  ELSE "busy"

\* The two tests of check_voice_lock (lines 52 and 59) on the values read:
\* "stale" (dead holder: remove, return 0), "free" (our lock: return 0) or
\* "busy" (return 1).
LockVerdict(lock_pid, lock_session, me, pidAlive) ==
  IF NonEmpty(lock_pid) /\ ~pidAlive THEN "stale"
  ELSE IF NonEmpty(lock_session) /\ lock_session = <<me>> THEN "free"
  ELSE "busy"

ChkAlive(c) ==
  /\ caller[c].pc = "chk_alive"
  /\ LET v == LockVerdict(caller[c].lock_pid, caller[c].lock_session,
                          caller[c].session, ProbeAlive(caller[c].lock_pid))
     IN  Upd(c, IF v = "stale" THEN [caller[c] EXCEPT !.pc = "chk_rm"]
                ELSE AfterCheck(caller[c], v = "free"))
  /\ UNCHANGED <<lockFile, pidFile, utt, ident, peer, install>>

StaleFallsThrough == FALSE

\* return 0 after the stale record was removed (line 55)
StaleLockIsFree == TRUE

\* rm -f "$VOICE_LOCK_FILE"; return 0
ChkRm(c) ==
  /\ caller[c].pc = "chk_rm"
  /\ lockFile' = NoFile
  /\ Upd(c, AfterCheck(Effect(caller[c], "lock_rm"), StaleLockIsFree))
  /\ UNCHANGED <<pidFile, utt, ident, peer, install>>

\* sleep 0.3; i=$((i + 1)); back to the loop test
WaitSleep(c) ==
  /\ caller[c].pc = "wait_sleep"
  /\ Upd(c, LoopHead([caller[c] EXCEPT !.i = @ + 1]))
  /\ UNCHANGED <<lockFile, pidFile, utt, ident, peer, install>>

\* --------------------------------------------------------- acquire_voice_lock
\* cat > "$VOICE_LOCK_FILE" <<EOF : the shell opens the file with
\* O_CREAT|O_TRUNC before the here-document ($(date) included) is expanded and
\* cat runs, so the file is empty in between.
AcqOpen(c) ==
  /\ caller[c].pc = "acq_open"
  /\ lockFile' = [exists |-> TRUE,
                  ino |-> IF lockFile.exists THEN lockFile.ino ELSE InoOf(c),
                  lines |-> <<>>]
  /\ Upd(c, Effect([caller[c] EXCEPT !.pc = "acq_write", !.fd = lockFile'.ino,
                       !.timeout = 0, !.max_iterations = 0, !.i = 0, !.polls = 0],
                   "lock_write"))
  /\ UNCHANGED <<pidFile, utt, ident, peer, install>>

AcquireLinesAppend(old, pid, session) == old \o LockRecord(pid, session)

\* The content of the lock file after cat wrote the record at offset 0 (every
\* record of the model has the same length, so it replaces what was there).
AcquireLines(old, pid, session) == LockRecord(pid, session)

AfterAcquireSkipsCancel == "spawn"

\* speak_exclusive after acquire_voice_lock (line 225): cancel_existing_tts
\* (line 228) comes next.
AfterAcquire == "can_exists"

AcqWrite(c) ==
  /\ caller[c].pc = "acq_write"
  /\ lockFile' = IF lockFile.exists /\ lockFile.ino = caller[c].fd
                 THEN [lockFile EXCEPT
                         !.lines = AcquireLines(@, HookPid(c), caller[c].session)]
                 ELSE lockFile
  /\ Upd(c, [caller[c] EXCEPT !.pc = AfterAcquire, !.fd = 0])
  /\ UNCHANGED <<pidFile, utt, ident, peer, install>>

\* -------------------------------------------------------- cancel_existing_tts
AllSubshells == {SubPid(h) : h \in Hooks}

CancelTargetsGlobal(pidRead, session) == AllSubshells

\* The pids a cancelling session signals: only the pid read from its own pid
\* file (lines 128-148); nothing is looked up by process name.
CancelTargets(pidRead, session) == {pidRead[k] : k \in 1..Len(pidRead)}

SharedPidFile(session) == PriorSession

\* TTS_PID_FILE="${INSTALL_DIR}/tts-${TTS_SESSION_ID_SAFE}.pid": the pid file
\* a process of the given (sanitized) session works on.
TTS_PID_FILE(session) == session

\* if [[ -f "$TTS_PID_FILE" ]]
CanExists(c) ==
  /\ caller[c].pc = "can_exists"
  /\ Upd(c, [caller[c] EXCEPT
               !.pc = IF pidFile[TTS_PID_FILE(caller[c].session)].exists
                      THEN "can_read" ELSE "spawn"])
  /\ UNCHANGED <<lockFile, pidFile, utt, ident, peer, install>>

\* local pid=$(cat "$TTS_PID_FILE" 2>/dev/null || echo ""); [[ -n "$pid" ]]
CanRead(c) ==
  /\ caller[c].pc = "can_read"
  /\ LET f == pidFile[TTS_PID_FILE(caller[c].session)]
         p == IF f.exists THEN f.lines ELSE <<>>
     IN  Upd(c, [caller[c] EXCEPT !.pid = p,
                   !.pc = IF NonEmpty(p) THEN "can_probe" ELSE "can_rm"])
  /\ UNCHANGED <<lockFile, pidFile, utt, ident, peer, install>>

\* if kill -0 "$pid"
CanProbe(c) ==
  /\ caller[c].pc = "can_probe"
  /\ Upd(c, [caller[c] EXCEPT
               !.pc = IF ProbeAlive(caller[c].pid) THEN "can_term" ELSE "can_rm"])
  /\ UNCHANGED <<lockFile, pidFile, utt, ident, peer, install>>

\* A signal to every pid of T.  A subshell (bash, default disposition) takes
\* SIGTERM when it next runs and SIGKILL at once; an engine ends on either.
\* The engine forked by a signalled subshell is a separate process and is not
\* signalled with it.
Signalled(T, sig) ==
  [h \in Hooks |->
     LET hitSub == SubPid(h) \in T /\ utt[h].sub = "alive"
         hitEng == EnginePid(h) \in T /\ utt[h].engine = "playing"
         u1 == IF ~hitSub THEN utt[h]
               ELSE IF sig = "KILL"
               THEN [utt[h] EXCEPT !.sub = "dead", !.pc = "done", !.sig = "none",
                                   !.lock_session = <<>>, !.end = "killed"]
               ELSE [utt[h] EXCEPT !.sig = "TERM"]
     IN  IF hitEng THEN [u1 EXCEPT !.engine = "killed"] ELSE u1]

\* kill "$pid" 2>/dev/null || true; local waited=0
CanTerm(c) ==
  /\ caller[c].pc = "can_term"
  /\ utt' = Signalled(CancelTargets(caller[c].pid, caller[c].session), "TERM")
  /\ Upd(c, Effect([caller[c] EXCEPT !.pc = "can_loop", !.waited = 0], "signal"))
  /\ UNCHANGED <<lockFile, pidFile, ident, peer, install>>

GraceNone(alive, waited) == FALSE

\* while kill -0 "$pid" 2>/dev/null && [[ $waited -lt 10 ]]
GraceContinues(alive, waited) == alive /\ waited < GraceProbes

\* The loop test, and on success: sleep 0.05; waited=$((waited + 1))
CanLoop(c) ==
  /\ caller[c].pc = "can_loop"
  /\ Upd(c, IF GraceContinues(ProbeAlive(caller[c].pid), caller[c].waited)
            THEN [caller[c] EXCEPT !.waited = @ + 1]
            ELSE [caller[c] EXCEPT !.pc = "can_force"])
  /\ UNCHANGED <<lockFile, pidFile, utt, ident, peer, install>>

\* if kill -0 "$pid"; then kill -9 "$pid"
CanForce(c) ==
  /\ caller[c].pc = "can_force"
  /\ IF ProbeAlive(caller[c].pid)
     THEN utt' = Signalled(CancelTargets(caller[c].pid, caller[c].session),
                           "KILL")
     ELSE UNCHANGED utt
  /\ Upd(c, [caller[c] EXCEPT !.pc = "can_rm", !.waited = 0])
  /\ UNCHANGED <<lockFile, pidFile, ident, peer, install>>

CanRmKeepsFile(c) ==
  /\ caller[c].pc = "can_rm"
  /\ Upd(c, Effect([caller[c] EXCEPT !.pc = "spawn", !.pid = <<>>], "pid_rm"))
  /\ UNCHANGED <<lockFile, pidFile, utt, ident, peer, install>>

\* rm -f "$TTS_PID_FILE"; sleep 0.1
CanRm(c) ==
  /\ caller[c].pc = "can_rm"
  /\ pidFile' = [pidFile EXCEPT ![TTS_PID_FILE(caller[c].session)] = NoFile]
  /\ Upd(c, Effect([caller[c] EXCEPT !.pc = "spawn", !.pid = <<>>], "pid_rm"))
  /\ UNCHANGED <<lockFile, utt, ident, peer, install>>

\* ------------------------------------------------- speak_exclusive, the rest
\* ( <engine> "$text"; release_voice_lock ) &   local tts_pid=$!
Spawn(c) ==
  /\ caller[c].pc = "spawn"
  /\ utt' = [utt EXCEPT ![c] = [NoUtt EXCEPT !.sub = "alive", !.pc = "fork",
                                               !.cmd = EngineCommand(install)]]
  /\ Upd(c, Effect([caller[c] EXCEPT !.pc = "write_open"], "spawn"))
  /\ UNCHANGED <<lockFile, pidFile, ident, peer, install>>

TrackedPidEngine(c) == EnginePid(c)

\* local tts_pid=$! : the pid of the background subshell
TrackedPid(c) == SubPid(c)

\* echo "$tts_pid" > "$TTS_PID_FILE": the redirection opens the file with
\* O_CREAT|O_TRUNC, then echo writes.
WriteOpen(c) ==
  /\ caller[c].pc = "write_open"
  /\ LET k == TTS_PID_FILE(caller[c].session)
     IN  /\ pidFile' = [pidFile EXCEPT ![k] =
                          [exists |-> TRUE,
                           ino |-> IF pidFile[k].exists THEN pidFile[k].ino
                                   ELSE InoOf(c),
                           lines |-> <<>>]]
         /\ Upd(c, [caller[c] EXCEPT !.pc = "write_pid", !.fd = pidFile'[k].ino])
  /\ UNCHANGED <<lockFile, utt, ident, peer, install>>

\* ... the write of echo, and the return of speak_exclusive
WritePid(c) ==
  /\ caller[c].pc = "write_pid"
  /\ LET k == TTS_PID_FILE(caller[c].session)
     IN  pidFile' = IF pidFile[k].exists /\ pidFile[k].ino = caller[c].fd
                    THEN [pidFile EXCEPT ![k].lines = <<TrackedPid(c)>>]
                    ELSE pidFile
  /\ Upd(c, Effect([caller[c] EXCEPT !.pc = "returned", !.rc = 0, !.fd = 0],
                   "pid_write"))
  /\ UNCHANGED <<lockFile, utt, ident, peer, install>>

\* The exit status of the hook: speak_exclusive "$summary" is a simple command
\* of main under set -euo pipefail, so a non-zero return ends the hook there
\* with that status; otherwise main logs and runs exit 0.
HookStatus(rc) == IF rc # 0 THEN rc ELSE 0

\* The hook process ends after speak_exclusive returned; rc becomes the exit
\* status of the hook.
Exit(c) ==
  /\ caller[c].pc \in {"returned", "cleaned"}
  /\ Upd(c, [IdleCaller EXCEPT !.pc = "exited", !.session = caller[c].session,
                               !.rc = HookStatus(caller[c].rc)])
  /\ UNCHANGED <<lockFile, pidFile, utt, ident, peer, install>>

ReleaseAlways(lock_session, me) == TRUE

\* [[ "$lock_session" == "$TTS_SESSION_ID_SAFE" ]]
ReleaseMatches(lock_session, me) == lock_session = <<me>>

\* -------------------------------------------------------- cleanup_tts_manager
\* "Cleanup function (for trap)": no trap is installed and no function calls
\* it; here a process runs it by hand after speak_exclusive returned.
\* rm -f "$TTS_PID_FILE"
Cleanup(c) ==
  /\ caller[c].pc = "returned"
  /\ pidFile' = [pidFile EXCEPT ![TTS_PID_FILE(caller[c].session)] = NoFile]
  /\ Upd(c, [caller[c] EXCEPT !.pc = "cln_exists"])
  /\ UNCHANGED <<lockFile, utt, ident, peer, install>>

\* release_voice_lock run by the process itself: the file test
ClnExists(c) ==
  /\ caller[c].pc = "cln_exists"
  /\ Upd(c, [caller[c] EXCEPT
               !.pc = IF lockFile.exists THEN "cln_read" ELSE "cleaned"])
  /\ UNCHANGED <<lockFile, pidFile, utt, ident, peer, install>>

\* ... the grep of the SESSION line and the comparison
ClnRead(c) ==
  /\ caller[c].pc = "cln_read"
  /\ Upd(c, [caller[c] EXCEPT
               !.pc = IF ReleaseMatches(GrepValues(lockFile, "SESSION"),
                                        caller[c].session)
                      THEN "cln_rm" ELSE "cleaned"])
  /\ UNCHANGED <<lockFile, pidFile, utt, ident, peer, install>>

\* ... rm -f "$VOICE_LOCK_FILE"
ClnRm(c) ==
  /\ caller[c].pc = "cln_rm"
  /\ lockFile' = NoFile
  /\ Upd(c, [caller[c] EXCEPT !.pc = "cleaned"])
  /\ UNCHANGED <<pidFile, utt, ident, peer, install>>

\* ------------------------------------------------- the background subshell
UpdUtt(c, rec) == utt' = [utt EXCEPT ![c] = rec]

\* The subshell forks the engine (node speak, or say) and waits for it.
SubFork(c) ==
  /\ utt[c].sub = "alive" /\ utt[c].pc = "fork"
  /\ UpdUtt(c, [utt[c] EXCEPT !.pc = "wait", !.engine = "playing"])
  /\ UNCHANGED <<lockFile, pidFile, caller, ident, peer, install>>

\* The engine process ends on its own, with status 0 or not.
EngineExit(c) ==
  /\ utt[c].engine = "playing"
  /\ \E st \in {"ok", "fail"} : UpdUtt(c, [utt[c] EXCEPT !.engine = st])
  /\ UNCHANGED <<lockFile, pidFile, caller, ident, peer, install>>

\* What the subshell does once the engine ended: under set -euo pipefail
\* (line 17) a failed engine command ends the subshell, otherwise the list
\* goes on to release_voice_lock.
AfterEngine(status) == IF status = "ok" THEN "rel_exists" ELSE "done"

EngineEnded == {"ok", "fail", "killed"}

SubReap(c) ==
  /\ utt[c].sub = "alive" /\ utt[c].pc = "wait"
  /\ utt[c].engine \in EngineEnded
  /\ LET n == AfterEngine(utt[c].engine)
     IN  UpdUtt(c, [utt[c] EXCEPT !.pc = n,
                      !.sub = IF n = "done" THEN "dead" ELSE "alive",
                      !.sig = IF n = "done" THEN "none" ELSE @,
                      !.end = IF n = "done" THEN "errexit" ELSE @])
  /\ UNCHANGED <<lockFile, pidFile, caller, ident, peer, install>>

\* A pending SIGTERM ends the subshell (bash, default disposition); the
\* engine it forked is a separate process and is not signalled.
SubTerminated(c) ==
  /\ utt[c].sub = "alive" /\ utt[c].sig = "TERM"
  /\ UpdUtt(c, [utt[c] EXCEPT !.sub = "dead", !.pc = "done", !.sig = "none",
                              !.lock_session = <<>>, !.end = "killed"])
  /\ UNCHANGED <<lockFile, pidFile, caller, ident, peer, install>>

\* --------------------------------------------------------- release_voice_lock
SubDone(rec, how) ==
  [rec EXCEPT !.pc = "done", !.sub = "dead", !.sig = "none",
              !.lock_session = <<>>, !.end = how]

\* if [[ -f "$VOICE_LOCK_FILE" ]]
RelExists(c) ==
  /\ utt[c].sub = "alive" /\ utt[c].pc = "rel_exists"
  /\ UpdUtt(c, IF lockFile.exists THEN [utt[c] EXCEPT !.pc = "rel_read"]
               ELSE SubDone(utt[c], "kept"))
  /\ UNCHANGED <<lockFile, pidFile, caller, ident, peer, install>>

\* local lock_session=$(grep '^SESSION=' ... | cut -d= -f2) and the test
RelRead(c) ==
  /\ utt[c].sub = "alive" /\ utt[c].pc = "rel_read"
  /\ LET ls == GrepValues(lockFile, "SESSION")
     IN  UpdUtt(c, IF ReleaseMatches(ls, caller[c].session)
                   THEN [utt[c] EXCEPT !.pc = "rel_rm", !.lock_session = ls]
                   ELSE SubDone(utt[c], "kept"))
  /\ UNCHANGED <<lockFile, pidFile, caller, ident, peer, install>>

\* rm -f "$VOICE_LOCK_FILE"
RelRm(c) ==
  /\ utt[c].sub = "alive" /\ utt[c].pc = "rel_rm"
  /\ lockFile' = NoFile
  /\ UpdUtt(c, SubDone(utt[c], "released"))
  /\ UNCHANGED <<pidFile, caller, ident, peer, install>>

\* ------------------------------------------------------------- cancel_all_tts
\* The manual clean-up: pkill/killall every speak, say and piper process of
\* the host, whichever session started it.  No function of the script calls it.
AllEngines == {EnginePid(h) : h \in Hooks}

cancel_all_tts ==
  /\ \E h \in Hooks : utt[h].engine = "playing"
  /\ utt' = Signalled(AllEngines, "TERM")
  /\ UNCHANGED <<lockFile, pidFile, caller, ident, peer, install>>

\* -------------------------------------------------------------- specification
Next ==
  \/ \E c \in Callers :
       \/ Start(c) \/ ChkExists(c) \/ ChkPid(c) \/ ChkSess(c) \/ ChkAlive(c)
       \/ ChkRm(c) \/ WaitSleep(c) \/ AcqOpen(c) \/ AcqWrite(c)
       \/ CanExists(c) \/ CanRead(c) \/ CanProbe(c) \/ CanTerm(c)
       \/ CanLoop(c) \/ CanForce(c) \/ CanRm(c) \/ Spawn(c) \/ WriteOpen(c) \/ WritePid(c)
       \/ Exit(c)
  \/ \E h \in Hooks :
       \/ SubFork(h) \/ EngineExit(h) \/ SubReap(h) \/ SubTerminated(h)
       \/ RelExists(h) \/ RelRead(h) \/ RelRm(h)
  \/ cancel_all_tts

Spec == Init /\ [][Next]_vars

\* ------------------------------------------------ one call after another
\* The hook Prior has run speak_exclusive before (or had nothing to say) and
\* has exited or is still alive; one more call follows, from either session,
\* with any of the texts below, and may run cleanup_tts_manager afterwards.
InitPriorAlive ==
  /\ peer = NoIdent
  /\ ident = NoIdent
  /\ lockFile = [exists |-> TRUE, ino |-> InoOf(Prior),
                 lines |-> LockRecord(HookPid(Prior), PriorSession)]
  /\ pidFile = [s \in Sessions |->
                  IF s = PriorSession
                  THEN [exists |-> TRUE, ino |-> InoOf(Prior), lines |-> <<SubPid(Prior)>>]
                  ELSE NoFile]
  /\ caller = [h \in Hooks |->
                 IF h = Prior
                 THEN [IdleCaller EXCEPT !.pc = "returned", !.session = PriorSession]
                 ELSE IdleCaller]
  /\ utt = [h \in Hooks |->
              IF h = Prior
              THEN [NoUtt EXCEPT !.sub = "alive", !.pc = "wait", !.engine = "playing",
                                !.cmd = EngineCommand(install)]
              ELSE NoUtt]

InitSolo ==
  /\ install \in Installs
  /\ InitClean \/ InitPrior \/ InitPriorAlive

SoloArgs == {<<>>, <<" ">>, <<"h", "i">>}
SoloStdins == {<<>>, <<"\n">>, <<" ", "\n">>, <<"h", "i", "\n">>}

StartSolo == StartWith(1, SoloArgs, SoloStdins)

NextSolo ==
  \/ StartSolo
  \/ \E c \in {1} :
       \/ ChkExists(c) \/ ChkPid(c) \/ ChkSess(c) \/ ChkAlive(c)
       \/ ChkRm(c) \/ WaitSleep(c) \/ AcqOpen(c) \/ AcqWrite(c)
       \/ CanExists(c) \/ CanRead(c) \/ CanProbe(c) \/ CanTerm(c)
       \/ CanLoop(c) \/ CanForce(c) \/ CanRm(c) \/ Spawn(c) \/ WriteOpen(c) \/ WritePid(c)
       \/ Cleanup(c) \/ ClnExists(c) \/ ClnRead(c) \/ ClnRm(c)
  \/ \E h \in {1, Prior} : Exit(h)
  \/ \E h \in Hooks :
       \/ SubFork(h) \/ EngineExit(h) \/ SubReap(h) \/ SubTerminated(h)
       \/ RelExists(h) \/ RelRead(h) \/ RelRm(h)

SpecSolo == InitSolo /\ [][NextSolo]_vars

\* -------------------------------------------------- deriving the session id
\* A process with some environment sources tts-manager.sh, up to MaxSourced
\* times.
TermSessionIds ==
  {<<>>, <<"w", "0", ":", "A", "-", "1">>, <<"a", "_", "b">>, <<":", ":">>,
   <<"-", "n">>, <<"-", "x">>, <<"a", "_", ":", "b">>}
WindowIds == {<<>>, <<"4", "2">>, <<"0", "x", "1">>}
ParentPids == {<<"7">>, <<"1", "2">>, <<"3", "0", "1">>}
OwnPids == {<<"9", "9">>}

InitId ==
  /\ install = DefaultInstall
  /\ peer = NoIdent
  /\ lockFile = NoFile
  /\ pidFile = [s \in Sessions |-> NoFile]
  /\ caller = [h \in Hooks |-> IdleCaller]
  /\ utt = [h \in Hooks |-> NoUtt]
  /\ \E t \in TermSessionIds, w \in WindowIds, pp \in ParentPids, p \in OwnPids :
       ident = [NoIdent EXCEPT !.env = [TERM_SESSION_ID |-> t, WINDOWID |-> w,
                                        PPID |-> pp, pid |-> p]]

\* Lines 23 and 25 of tts-manager.sh, run each time the file is sourced.
Source ==
  /\ ident.sourced < MaxSourced
  /\ LET raw == TTS_SESSION_ID(ident.env)
         safe == TTS_SESSION_ID_SAFE(raw)
     IN  ident' = [ident EXCEPT !.raw = raw, !.safe = safe,
                                !.first = IF ident.sourced = 0 THEN safe ELSE @,
                                !.sourced = @ + 1]
  /\ UNCHANGED <<lockFile, pidFile, caller, utt, peer, install>>

NextId == Source

SpecId == InitId /\ [][NextId]_vars

\* Two processes of two sessions, each with its own environment, source
\* tts-manager.sh.
InitPair ==
  /\ install = DefaultInstall
  /\ lockFile = NoFile
  /\ pidFile = [s \in Sessions |-> NoFile]
  /\ caller = [h \in Hooks |-> IdleCaller]
  /\ utt = [h \in Hooks |-> NoUtt]
  /\ \E t \in TermSessionIds, w \in WindowIds, pp \in ParentPids, p \in OwnPids :
       ident = [NoIdent EXCEPT !.env = [TERM_SESSION_ID |-> t, WINDOWID |-> w,
                                        PPID |-> pp, pid |-> p]]
  /\ \E t \in TermSessionIds, w \in WindowIds, pp \in ParentPids, p \in OwnPids :
       peer = [NoIdent EXCEPT !.env = [TERM_SESSION_ID |-> t, WINDOWID |-> w,
                                       PPID |-> pp, pid |-> p]]

SourcePeer ==
  /\ peer.sourced < MaxSourced
  /\ LET raw == TTS_SESSION_ID(peer.env)
         safe == TTS_SESSION_ID_SAFE(raw)
     IN  peer' = [peer EXCEPT !.raw = raw, !.safe = safe,
                              !.first = IF peer.sourced = 0 THEN safe ELSE @,
                              !.sourced = @ + 1]
  /\ UNCHANGED <<lockFile, pidFile, caller, utt, ident, install>>

NextPair == Source \/ SourcePeer

SpecPair == InitPair /\ [][NextPair]_vars

\* ------------------------------------------------- wait_for_voice_lock alone
\* The hook Prior (session s1) is alive and holds the lock, its utterance
\* playing; caller 1 runs wait_for_voice_lock T for some T in 0..MaxWaitT.
\* Prior may exit and its utterance may end and release while caller 1 polls.
InitWait ==
  /\ install = DefaultInstall
  /\ peer = NoIdent
  /\ ident = NoIdent
  /\ lockFile = [exists |-> TRUE, ino |-> InoOf(Prior),
                 lines |-> LockRecord(HookPid(Prior), PriorSession)]
  /\ pidFile = [s \in Sessions |->
                  IF s = PriorSession
                  THEN [exists |-> TRUE, ino |-> InoOf(Prior), lines |-> <<SubPid(Prior)>>]
                  ELSE NoFile]
  /\ \E s \in Sessions, T \in 0..MaxWaitT :
       caller = [h \in Hooks |->
                   IF h = Prior
                   THEN [IdleCaller EXCEPT !.pc = "returned", !.session = PriorSession]
                   ELSE IF h = 1
                   THEN EnterWait([IdleCaller EXCEPT !.session = s], T)
                   ELSE IdleCaller]
  /\ utt = [h \in Hooks |->
              IF h = Prior
              THEN [NoUtt EXCEPT !.sub = "alive", !.pc = "wait", !.engine = "playing",
                                !.cmd = EngineCommand(install)]
              ELSE NoUtt]

NextWait ==
  \/ \E c \in Callers :
       \/ ChkExists(c) \/ ChkPid(c) \/ ChkSess(c) \/ ChkAlive(c) \/ ChkRm(c)
       \/ WaitSleep(c)
  \/ Exit(Prior)
  \/ EngineExit(Prior) \/ SubReap(Prior)
  \/ RelExists(Prior) \/ RelRead(Prior) \/ RelRm(Prior)

\* Every process that can take a step eventually takes one.
SpecWait == InitWait /\ [][NextWait]_vars /\ WF_vars(NextWait)

\* ==================================================================== claims

Playing == {h \in Hooks : utt[h].engine = "playing"}

\* C1: at any moment at most one utterance (engine process started by
\* speak_exclusive) is running on the host.
C1_AtMostOneUtterance == Cardinality(Playing) <= 1

\* A step of caller c (a step of its speak_exclusive call).
Acted(c) == caller'[c] # caller[c]

\* C2: a step of speak_exclusive run by one session never signals, kills or
\* otherwise changes a process of another session, and never ends an engine
\* (the global cancellation is not part of it).
C2_SessionScopedCancel ==
  [][\A c \in Callers, h \in Hooks :
       (Acted(c) /\ utt[h].sub # "none" /\ utt'[h] # utt[h])
         => /\ caller[h].session = caller[c].session
            /\ utt'[h].engine = utt[h].engine]_vars

\* Session A has signalled its own earlier subshell while the utterance of
\* another session B is playing.
C2_Witness ==
  \E h, g \in Hooks :
    /\ utt[h].sig = "TERM"
    /\ caller[g].session # caller[h].session
    /\ utt[g].sub = "alive" /\ utt[g].engine = "playing"

\* C3: the lock file never holds more than one record and never names more
\* than one holder session.
HolderSessions ==
  {GrepValues(lockFile, "SESSION")[k] :
     k \in 1..Len(GrepValues(lockFile, "SESSION"))}

C3_OneHolder ==
  /\ Cardinality(HolderSessions) <= 1
  /\ Len(GrepCut(lockFile, "PID")) <= 1
  /\ Len(GrepCut(lockFile, "SESSION")) <= 1

PastAcquire(c) ==
  caller[c].pc \in {"can_exists", "can_read", "can_probe", "can_term",
                    "can_loop", "can_force", "can_rm", "spawn", "write_open",
                    "write_pid"}

\* Two callers of different sessions are both past acquire_voice_lock, and
\* the lock file names one of them.
C3_Witness ==
  \E c, d \in Callers :
    /\ caller[c].session # caller[d].session
    /\ PastAcquire(c) /\ PastAcquire(d)
    /\ HolderSessions = {caller[c].session}

\* The holder pid read by check_voice_lock is not a live process.
ReadDeadPid(c) == NonEmpty(caller[c].lock_pid) /\ ~ProbeAlive(caller[c].lock_pid)

\* C4: when the PID read from the lock record is not a live process,
\* check_voice_lock removes the lock file and returns free, at that first
\* check and whichever session the record names.
C4_StaleReclaimed ==
  [][\A c \in Callers :
       /\ (caller[c].pc = "chk_alive" /\ ReadDeadPid(c) /\ Acted(c))
            => caller'[c].pc = "chk_rm"
       /\ (caller[c].pc = "chk_rm" /\ Acted(c))
            => ~lockFile'.exists /\ caller'[c].pc = "acq_open"]_vars

\* A caller has removed a stale lock file and goes on to acquire.
C4_Witness ==
  \E c \in Callers :
    caller[c].pc = "acq_open" /\ caller[c].dirty /\ ~lockFile.exists

\* The step in which check_voice_lock returns, and its result.
ReturnsFree(c) == caller'[c].pc \in {"acq_open", "chk_rm"}
ReturnsBusy(c) == caller'[c].pc \in {"wait_sleep", "chk_exists", "returned"}

WellFormedRead(c) == Len(caller[c].lock_pid) = 1 /\ Len(caller[c].lock_session) = 1

\* C5: check_voice_lock returns free when there is no lock file; on a
\* well-formed record it returns not-free exactly when the holder pid is alive
\* and the holder session is not the caller's.
C5_CheckVerdict ==
  [][\A c \in Callers :
       /\ (caller[c].pc = "chk_exists" /\ ~lockFile.exists /\ Acted(c))
            => ReturnsFree(c)
       /\ (caller[c].pc = "chk_alive" /\ WellFormedRead(c) /\ Acted(c))
            => /\ ReturnsFree(c) \/ ReturnsBusy(c)
               /\ ReturnsBusy(c) <=>
                    /\ ProbeAlive(caller[c].lock_pid)
                    /\ caller[c].lock_session # <<caller[c].session>>]_vars

\* A caller sleeps in wait_for_voice_lock while the lock file holds the
\* record of a live hook of another session.
C5_Witness ==
  \E c \in Callers :
    /\ caller[c].pc = "wait_sleep"
    /\ ProbeAlive(GrepValues(lockFile, "PID"))
    /\ Len(GrepValues(lockFile, "SESSION")) = 1
    /\ GrepValues(lockFile, "SESSION") # <<caller[c].session>>

\* C6: a lock record that lacks its PID or SESSION line (an empty file
\* included) is treated as free by check_voice_lock.
C6_CorruptIsFree ==
  [][\A c \in Callers :
       (caller[c].pc = "chk_alive" /\ ~WellFormedRead(c) /\ Acted(c))
         => ReturnsFree(c)]_vars

\* The step in which the subshell of hook h moves on.
SubStep(h) == utt'[h].pc # utt[h].pc

\* C7: release_voice_lock removes the lock file only when the record in it
\* names the releasing session.
C7_ReleaseOnlyOwn ==
  [][\A h \in Hooks :
       (utt[h].pc = "rel_rm" /\ utt'[h].end = "released"
          /\ NonEmpty(GrepValues(lockFile, "SESSION")))
         => GrepValues(lockFile, "SESSION") = <<caller[h].session>>]_vars

\* C8: a release that finds no lock file (a second release after a first),
\* or a record of another session, leaves the lock file as it is and ends
\* without removing anything.
C8_ReleaseIdempotent ==
  [][\A h \in Hooks :
       /\ (utt[h].pc = "rel_exists" /\ ~lockFile.exists /\ SubStep(h))
            => lockFile' = lockFile /\ utt'[h].end \in {"kept", "killed"}
       /\ (utt[h].pc = "rel_read" /\ SubStep(h)
             /\ GrepValues(lockFile, "SESSION") # <<caller[h].session>>)
            => lockFile' = lockFile /\ utt'[h].end \in {"kept", "killed"}]_vars

\* A release by a session that is not the holder has ended, and the record
\* of the holder is still there.
C8_Witness ==
  \E h \in Hooks :
    /\ utt[h].end = "kept"
    /\ Len(GrepCut(lockFile, "PID")) = 1
    /\ Cardinality(HolderSessions) = 1
    /\ caller[h].session \notin HolderSessions

InWaitLoop(c) == caller[c].inWait

\* C9: wait_for_voice_lock T polls at most floor(T*1000/300) times, sleeps
\* 300 ms after each failed poll, and returns failure after exactly that many
\* polls (50 for the 15 s of speak_exclusive), T seconds plus at most one
\* interval after it started; it never polls forever.
C9_PollBound ==
  \A c \in Callers :
    /\ caller[c].polls * interval_ms <= caller[c].timeout * 1000
    /\ caller[c].i <= caller[c].polls
    /\ (caller[c].pc = "returned" /\ caller[c].rc = 1)
         => /\ caller[c].i = caller[c].polls
            /\ (caller[c].polls + 1) * interval_ms > caller[c].timeout * 1000
            /\ caller[c].i * interval_ms <= caller[c].timeout * 1000 + interval_ms
            /\ caller[c].timeout = SpeakTimeout => caller[c].polls = 50

C9_WaitTerminates ==
  /\ []C9_PollBound
  /\ <>(\A c \in Callers : ~InWaitLoop(c))

\* wait_for_voice_lock 15 has returned failure after its 50 polls.
C9_Witness ==
  \E c \in Callers :
    /\ caller[c].pc = "returned" /\ caller[c].rc = 1
    /\ caller[c].timeout = SpeakTimeout /\ caller[c].polls = 50

\* C10: a speak_exclusive that gave up after the wait timeout has written or
\* removed no file, signalled no process and spawned nothing.
C10_TimeoutNoEffect ==
  \A c \in Callers :
    (caller[c].pc = "returned" /\ caller[c].rc = 1)
      => ~caller[c].dirty /\ utt[c] = NoUtt

\* A caller has timed out while the record of another session's live hook is
\* in the lock file.
C10_Witness ==
  \E c \in Callers :
    /\ caller[c].pc = "returned" /\ caller[c].rc = 1
    /\ ProbeAlive(GrepValues(lockFile, "PID"))
    /\ GrepValues(lockFile, "SESSION") # <<caller[c].session>>

\* C11: a wait timeout is not fatal: speak_exclusive does not report an error
\* and the hook that called it still ends with exit status 0.
C11_TimeoutNonFatal ==
  \A c \in Callers :
    caller[c].pc = "exited" => caller[c].rc = 0

\* Leading and trailing blanks removed.
Blank == {" ", "\t", "\n"}

RECURSIVE Trim(_)
Trim(text) ==
  IF text = <<>> THEN text
  ELSE IF text[1] \in Blank THEN Trim(Tail(text))
  ELSE IF text[Len(text)] \in Blank THEN Trim(SubSeq(text, 1, Len(text) - 1))
  ELSE text

\* The speak_exclusive call of hook c has started and has not returned.
InCall(c) ==
  caller[c].pc \in {"chk_exists", "chk_pid", "chk_sess", "chk_alive", "chk_rm",
                    "wait_sleep", "acq_open", "acq_write", "can_exists",
                    "can_read", "can_probe", "can_term", "can_loop",
                    "can_force", "can_rm", "spawn", "write_open",
                    "write_pid"}

\* C12: speak_exclusive with a text that is empty after trimming returns 0 at
\* once: it checks, acquires and releases no lock, touches no pid file,
\* signals no process and spawns nothing.
C12_BlankTextIsNoOp ==
  \A c \in Callers :
    ((InCall(c) \/ caller[c].pc = "returned") /\ Trim(caller[c].text) = <<>>)
      => /\ caller[c].pc = "returned" /\ caller[c].rc = 0
         /\ ~caller[c].dirty /\ utt[c] = NoUtt

\* C13: the calls of one session coming one after another, the engine of the
\* session's previous utterance is no longer running when the engine of the
\* new one runs.
C13_NoSelfOverlap ==
  \A c \in Callers :
    caller[c].session = caller[Prior].session
      => ~(utt[Prior].engine = "playing" /\ utt[c].engine = "playing")

\* C14: while a session's first utterance is still playing and the session
\* calls speak_exclusive again, the lock file names that session at every
\* moment of the second call.
C14_LockHeldThroughout ==
  \A c \in Callers :
    (InCall(c) /\ caller[c].session = caller[Prior].session
       /\ utt[Prior].engine = "playing")
      => HolderSessions = {caller[c].session}

\* C15: when the engine ended on its own, with status 0 or not, the subshell
\* goes on to release_voice_lock.
C15_ReleaseAfterEngine ==
  [][\A h \in Hooks :
       (utt[h].pc = "wait" /\ utt[h].engine \in {"ok", "fail"}
          /\ utt[h].sig = "none" /\ SubStep(h))
         => utt'[h].pc = "rel_exists"]_vars

\* C16: once the holder's utterance has released the lock while another
\* session waits, the waiting session polls again after its sleep (and finds
\* the lock free) instead of giving up.
C16_PollAfterRelease ==
  [][\A c \in Callers :
       (caller[c].pc = "wait_sleep" /\ caller[c].session # caller[Prior].session
          /\ utt[Prior].end = "released" /\ ~lockFile.exists /\ Acted(c))
         => caller'[c].pc = "chk_exists"]_vars

\* The call of hook c started from a clean directory: no hook spoke before it.
FirstCall(c) == utt[Prior] = NoUtt /\ caller[c].pc = "returned"

Started(c) == caller[c].text # <<>>

PidFileTracks(c) ==
  LET f == pidFile[TTS_PID_FILE(caller[c].session)]
  IN  f.exists /\ f.lines = <<SubPid(c)>>

C18_OwnPidFileOnly ==
  [][\A c \in Hooks, s \in Sessions :
       (Acted(c) /\ s # caller'[c].session) => pidFile'[s] = pidFile[s]]_vars

\* A process has spoken and cleaned up (its pid file written, then removed)
\* while the pid file of the other session is still as that session wrote it.
C18_Witness ==
  \E c \in Callers :
    /\ caller[c].pc = "cleaned" /\ caller[c].dirty
    /\ caller[c].session # PriorSession
    /\ ~pidFile[caller[c].session].exists
    /\ pidFile[PriorSession].exists
    /\ pidFile[PriorSession].lines = <<SubPid(Prior)>>

\* The raw id with every character outside [A-Za-z0-9_-] removed.
OnlySafeChars(raw) == SelectSeq(raw, LAMBDA ch : ch \in SafeChars)

\* C19: the sanitized session id is never empty: when nothing of the raw id
\* is left, it is "pid-" followed by the pid of the process.
C19_SafeIdNonEmpty ==
  ident.sourced > 0
    => /\ ident.safe # <<>>
       /\ OnlySafeChars(ident.raw) = <<>>
            => ident.safe = <<"p", "i", "d", "-">> \o ident.env.pid

\* The first of the terminal session id, the window id and "session-" with
\* the parent pid that is there.
FirstAvailable(env) ==
  IF env.TERM_SESSION_ID # <<>> THEN env.TERM_SESSION_ID
  ELSE IF env.WINDOWID # <<>> THEN env.WINDOWID
  ELSE <<"s", "e", "s", "s", "i", "o", "n", "-">> \o env.PPID

\* C20: the raw id is the first available of TERM_SESSION_ID, WINDOWID and
\* "session-" + parent pid; the safe id is the raw id without the characters
\* outside [A-Za-z0-9_-], and every derivation in a process gives the same.
C20_SessionIdentity ==
  ident.sourced > 0
    => /\ ident.raw = FirstAvailable(ident.env)
       /\ ident.safe = OnlySafeChars(ident.raw)
       /\ ident.safe = ident.first

\* C21: the utterance a speak_exclusive call spawns runs one engine command:
\* node on the speak command when its file exists, otherwise say with the
\* voice and the rate of config.json, Samantha and 175 where they are absent.
C21_EngineChoice ==
  \A h \in Hooks :
    utt[h].sub # "none"
      => /\ install.speak => utt[h].cmd = <<"node", "bin/speak">>
         /\ ~install.speak =>
              /\ Len(utt[h].cmd) = 5 /\ utt[h].cmd[1] = "say"
              /\ utt[h].cmd[3] = (IF install.config.exists
                                     /\ install.config.voice # Null
                                  THEN install.config.voice ELSE "Samantha")
              /\ utt[h].cmd[5] = (IF install.config.exists
                                     /\ install.config.rate # Null
                                  THEN install.config.rate ELSE "175")

\* Without bin/speak and with a config.json that names a voice but no rate, a
\* call has started say with that voice at the default rate.
C21_Witness ==
  \E c \in Callers :
    /\ ~install.speak /\ install.config.exists
    /\ install.config.voice = "Alex" /\ install.config.rate = Null
    /\ utt[c].engine = "playing"
    /\ utt[c].cmd = <<"say", "-v", "Alex", "-r", "175">>

InCancel(c) ==
  caller[c].pc \in {"can_exists", "can_read", "can_probe", "can_term",
                    "can_loop", "can_force", "can_rm"}

\* C22: a call that starts an utterance goes through acquire_voice_lock,
\* cancel_existing_tts, the spawn and the write of the pid file in this order,
\* none skipped, and returns whatever the spawned process is doing.
C22_StepOrder ==
  [][\A c \in Callers :
       Acted(c) =>
         /\ caller'[c].pc = "acq_write" => caller[c].pc = "acq_open"
         /\ caller'[c].pc = "can_exists" => caller[c].pc = "acq_write"
         /\ caller'[c].pc = "spawn" => InCancel(c)
         /\ utt'[c].sub # utt[c].sub
              => caller[c].pc = "spawn" /\ utt'[c].sub = "alive"
         /\ caller'[c].pc = "write_open"
              => caller[c].pc = "spawn" /\ utt'[c].sub = "alive"
         /\ caller'[c].pc = "write_pid" => caller[c].pc = "write_open"
         /\ (caller'[c].pc = "returned" /\ caller'[c].dirty)
              => /\ caller[c].pc = "write_pid" /\ caller'[c].rc = 0
                 /\ utt' = utt]_vars

\* speak_exclusive has returned before its subshell has even started the
\* engine.
C22_Witness ==
  \E c \in Callers :
    /\ caller[c].pc = "returned" /\ caller[c].dirty
    /\ utt[c].sub = "alive" /\ utt[c].pc = "fork"

\* C23: cancel_existing_tts sends SIGTERM first, then waits while the process
\* is alive, at most 10 times 50 ms, and sends SIGKILL only to a process that
\* is still alive after the 10 waits; a process found dead gets no SIGKILL.
C23_GracefulThenForceful ==
  [][\A c \in Callers :
       Acted(c) =>
         /\ caller[c].pc = "can_term"
              => /\ caller'[c].waited = 0
                 /\ \A h \in Hooks :
                      utt'[h] # utt[h]
                        => utt'[h] = [utt[h] EXCEPT !.sig = "TERM"]
         /\ caller[c].pc = "can_loop"
              => /\ caller'[c].waited <= GraceProbes
                 /\ caller'[c].waited # caller[c].waited
                      => ProbeAlive(caller[c].pid)
                 /\ utt' = utt
         /\ (caller[c].pc = "can_force" /\ utt' # utt)
              => /\ caller[c].waited = GraceProbes
                 /\ ProbeAlive(caller[c].pid)
         /\ (caller[c].pc = "can_force" /\ ~ProbeAlive(caller[c].pid))
              => utt' = utt]_vars

\* The tracked process has outlived SIGTERM and the 10 waits: SIGKILL is next.
C23_Witness ==
  \E c \in Callers, h \in Hooks :
    /\ caller[c].pc = "can_force" /\ caller[c].waited = GraceProbes
    /\ caller[c].pid = <<SubPid(h)>>
    /\ utt[h].sub = "alive" /\ utt[h].sig = "TERM"

OwnPidFile(c) == pidFile[TTS_PID_FILE(caller[c].session)]

\* C24: with no pid file, an empty pid file or a tracked pid that is dead,
\* cancel_existing_tts signals nothing and goes on; it always runs to its end,
\* and at its end the pid file of the session is absent.
C24_CancelIdempotent ==
  [][\A c \in Callers :
       (Acted(c) /\ InCancel(c)) =>
         /\ InCancel(c)' \/ caller'[c].pc = "spawn"
         /\ (caller[c].pc = "can_exists" /\ ~OwnPidFile(c).exists)
              => caller'[c].pc = "spawn" /\ utt' = utt /\ pidFile' = pidFile
         /\ (caller[c].pc = "can_read" /\ OwnPidFile(c).lines = <<>>)
              => caller'[c].pc = "can_rm" /\ utt' = utt
         /\ (caller[c].pc = "can_probe" /\ ~ProbeAlive(caller[c].pid))
              => caller'[c].pc = "can_rm" /\ utt' = utt
         /\ caller'[c].pc = "spawn" => ~OwnPidFile(c)'.exists]_vars

\* cancel_existing_tts has read an empty pid file (another process of the
\* session is between opening and writing it) and goes on to remove it.
C24_Witness ==
  \E c \in Callers :
    caller[c].pc = "can_rm" /\ caller[c].pid = <<>> /\ OwnPidFile(c).lines = <<>>
      /\ OwnPidFile(c).exists

\* C25: check_voice_lock and acquire_voice_lock are separate steps: a check
\* that finds no lock file writes nothing, and the acquire that follows does
\* not check again and overwrites whatever record is there; so two sessions
\* can both see the lock free and both acquire and speak.
C25_CheckThenAcquire ==
  [][\A c \in Callers :
       Acted(c) =>
         /\ (caller[c].pc = "chk_exists" /\ ~lockFile.exists)
              => lockFile' = lockFile /\ caller'[c].pc = "acq_open"
         /\ caller[c].pc = "acq_open"
              => caller'[c].pc = "acq_write" /\ lockFile'.exists
         /\ (caller[c].pc = "acq_write" /\ lockFile.exists
                /\ lockFile.ino = caller[c].fd)
              => lockFile'.lines = LockRecord(HookPid(c), caller[c].session)]_vars

\* From a clean directory two live hooks of different sessions are both
\* speaking, and the lock file holds the record of the one that wrote last.
C25_Witness ==
  \E c, d \in Callers :
    /\ utt[Prior] = NoUtt
    /\ caller[c].session # caller[d].session
    /\ HookAlive(c) /\ HookAlive(d)
    /\ utt[c].engine = "playing" /\ utt[d].engine = "playing"
    /\ lockFile.exists
    /\ lockFile.lines = LockRecord(HookPid(d), caller[d].session)

\* C26: a lock record whose holder pid is alive is changed only by an
\* acquire or by the release of a process of the holder session.
C26_LiveRecordFrame ==
  [][(ProbeAlive(GrepValues(lockFile, "PID")) /\ lockFile' # lockFile)
       => \/ \E c \in Callers :
              caller[c].pc \in {"acq_open", "acq_write"} /\ Acted(c)
          \/ \E h \in Hooks :
              /\ utt[h].pc = "rel_rm" /\ SubStep(h)
              /\ caller[h].session \in HolderSessions]_vars

\* C27: while the engine of an utterance of session S is running, the lock
\* file exists and names S.
C27_SpeakerHoldsLock ==
  \A h \in Hooks :
    utt[h].engine = "playing" => HolderSessions = {caller[h].session}

\* C28: the release run at the end of an earlier utterance of a session
\* never removes the record a later call of the same session has written.
C28_ReleaseSparesLaterCall ==
  [][(utt[Prior].pc = "rel_rm" /\ utt'[Prior].end = "released")
       => ~\E c \in Callers :
             /\ caller[c].session = caller[Prior].session
             /\ GrepValues(lockFile, "PID") = <<HookPid(c)>>]_vars

\* C29: once two interleaved calls of one session have both returned, at most
\* one subshell of the session is alive, and its pid is in the pid file.
C29_OneTrackedUtterance ==
  \A c, d \in Callers :
    (c # d /\ caller[c].session = caller[d].session
       /\ caller[c].pc = "returned" /\ caller[d].pc = "returned"
       /\ caller[c].dirty /\ caller[d].dirty)
      => LET alive == {h \in Hooks : /\ caller[h].session = caller[c].session
                                     /\ utt[h].sub = "alive"}
         IN  /\ Cardinality(alive) <= 1
             /\ \A h \in alive : OwnPidFile(h).lines = <<SubPid(h)>>

\* What $(grep '^SESSION=' ... | cut -d= -f2) gives for a record written with
\* the given safe id.
SessionRead(safe) == IF safe = <<>> THEN <<>> ELSE <<safe>>

\* C30: two sessions with different raw ids have different safe ids: they
\* use different pid files, and neither takes a record of the other for its
\* own in check_voice_lock or release_voice_lock.
C30_DistinctSessions ==
  (ident.sourced > 0 /\ peer.sourced > 0 /\ ident.raw # peer.raw)
    => /\ ident.safe # peer.safe
       /\ TTS_PID_FILE(ident.safe) # TTS_PID_FILE(peer.safe)
       /\ LockVerdict(<<peer.env.pid>>, SessionRead(peer.safe), ident.safe, TRUE)
            = "busy"
       /\ ~ReleaseMatches(SessionRead(peer.safe), ident.safe)

====
